---------------------------- MODULE Spec2Model ----------------------------
(***************************************************************************)
(* Model of the spank-tro SLURM plugin (src/src/lib.rs): the SpankHello    *)
(* plugin instance, its four callbacks (init, init_post_opt, user_init,    *)
(* exit), the trace lookup get_xalt_trace and the timestamp formatter      *)
(* get_date_from_timestamp.                                                *)
(*                                                                         *)
(* Strings are sequences of chunks (each chunk a TLA+ string), so that     *)
(* concatenation, prefixes and suffixes are those of the program's         *)
(* strings.  Option<T> is a record [some, val].                            *)
(*                                                                         *)
(* A callback ends "ok" (returns Ok), "err" (returns Err) or "panic" (an   *)
(* unwrap or expect fails).  However a callback ends, the host may go on   *)
(* to deliver the callbacks that follow it.  The calls on the host's       *)
(* handle (context, plugin_argv, getenv, setenv, job_id, job_uid) are      *)
(* taken to succeed: the handle is valid in every callback.                *)
(***************************************************************************)
EXTENDS Integers, Sequences, FiniteSets, TLC

(***************************************************************************)
(* Bounds of the model.                                                    *)
(***************************************************************************)
MaxArgs == 2      \* longest plugin argument vector
MaxFiles == 2     \* most files in the trace directory

(***************************************************************************)
(* Option<String>                                                          *)
(***************************************************************************)
None == [some |-> FALSE, val |-> <<>>]
Some(v) == [some |-> TRUE, val |-> v]

SeqsUpTo(S, n) == UNION {[1..k -> S] : k \in 0..n}

IsSuffix(s, t) ==
    /\ Len(s) <= Len(t)
    /\ SubSeq(t, Len(t) - Len(s) + 1, Len(t)) = s

(***************************************************************************)
(* The host: execution contexts of slurm_spank::Context.                   *)
(***************************************************************************)
Contexts == {"Local", "Remote", "Allocator", "Slurmd", "JobScript"}

(***************************************************************************)
(* struct SpankHello and its Default.                                      *)
(***************************************************************************)
SpankHelloDefault ==
    [generate_tro    |-> FALSE,
     xalt_dir        |-> <<>>,
     gpg_home        |-> <<>>,
     gpg_fingerprint |-> <<>>,
     gpg_passphrase  |-> <<>>,
     trs_caps        |-> <<>>,
     tro_utils       |-> <<>>]

(***************************************************************************)
(* Plugin arguments.  An argument is the text `key=value` (a key and a     *)
(* value); an argument with none of the six prefixes has key "other".      *)
(* The file system decides which xalt_dir values are directories.          *)
(***************************************************************************)
ExistingDirs == {<<"/opt/xalt">>, <<"/opt/xalt", "/">>}

ArgValues ==
    [xalt_dir        |-> {<<"/opt/xalt">>, <<"/opt/xalt", "/">>, <<"/nope">>},
     gpg_home        |-> {<<"/gpg">>},
     gpg_fingerprint |-> {<<"FP">>},
     gpg_passphrase  |-> {<<"pw">>},
     trs_caps        |-> {<<"/caps.json">>},
     tro_utils       |-> {<<"/bin/tro-utils">>},
     other           |-> {<<"x">>}]

PluginArgs == UNION {[key : {k}, value : ArgValues[k]] : k \in DOMAIN ArgValues}

ArgVecs == SeqsUpTo(PluginArgs, MaxArgs)

\* Some argument is xalt_dir=<value> with a value that is no directory.
NamesInvalidDir(argv) ==
    \E i \in 1..Len(argv) :
        argv[i].key = "xalt_dir" /\ argv[i].value \notin ExistingDirs

\* parse_xalt_dir that takes any path.
parse_xalt_dir_unchecked(value) == [ok |-> TRUE, path |-> value]

\* fn parse_xalt_dir(value) -> Result<PathBuf, Report>
parse_xalt_dir(value) ==
    IF value \in ExistingDirs
    THEN [ok |-> TRUE, path |-> value]
    ELSE [ok |-> FALSE, path |-> <<>>]

\* ParseArg with the gpg_passphrase arm assigning gpg_fingerprint.
ParseArg_crossed(cfg, arg) ==
    CASE arg.key = "xalt_dir" ->
           LET r == parse_xalt_dir(arg.value)
           IN  IF r.ok THEN [ok |-> TRUE, cfg |-> [cfg EXCEPT !.xalt_dir = r.path]]
                       ELSE [ok |-> FALSE, cfg |-> cfg]
      [] arg.key = "gpg_home" ->
           [ok |-> TRUE, cfg |-> [cfg EXCEPT !.gpg_home = arg.value]]
      [] arg.key = "gpg_fingerprint" ->
           [ok |-> TRUE, cfg |-> [cfg EXCEPT !.gpg_fingerprint = arg.value]]
      [] arg.key = "gpg_passphrase" ->
           [ok |-> TRUE, cfg |-> [cfg EXCEPT !.gpg_fingerprint = arg.value]]
      [] arg.key = "trs_caps" ->
           [ok |-> TRUE, cfg |-> [cfg EXCEPT !.trs_caps = arg.value]]
      [] arg.key = "tro_utils" ->
           [ok |-> TRUE, cfg |-> [cfg EXCEPT !.tro_utils = arg.value]]
      [] OTHER -> [ok |-> TRUE, cfg |-> cfg]

\* One iteration of the `for arg in spank.plugin_argv()` loop of init.
\* Returns the updated plugin and whether the loop goes on (ok) or init
\* returns Err.
ParseArg(cfg, arg) ==
    CASE arg.key = "xalt_dir" ->
           LET r == parse_xalt_dir(arg.value)
           IN  IF r.ok THEN [ok |-> TRUE, cfg |-> [cfg EXCEPT !.xalt_dir = r.path]]
                       ELSE [ok |-> FALSE, cfg |-> cfg]
      [] arg.key = "gpg_home" ->
           [ok |-> TRUE, cfg |-> [cfg EXCEPT !.gpg_home = arg.value]]
      [] arg.key = "gpg_fingerprint" ->
           [ok |-> TRUE, cfg |-> [cfg EXCEPT !.gpg_fingerprint = arg.value]]
      [] arg.key = "gpg_passphrase" ->
           [ok |-> TRUE, cfg |-> [cfg EXCEPT !.gpg_passphrase = arg.value]]
      [] arg.key = "trs_caps" ->
           [ok |-> TRUE, cfg |-> [cfg EXCEPT !.trs_caps = arg.value]]
      [] arg.key = "tro_utils" ->
           [ok |-> TRUE, cfg |-> [cfg EXCEPT !.tro_utils = arg.value]]
      [] OTHER -> [ok |-> TRUE, cfg |-> cfg]

\* The whole loop: stops at the first argument that fails, keeping the
\* fields assigned before it.
RECURSIVE ParseArgs(_, _)
ParseArgs(cfg, argv) ==
    IF argv = <<>> THEN [ok |-> TRUE, cfg |-> cfg]
    ELSE LET r == ParseArg(cfg, Head(argv))
         IN  IF r.ok THEN ParseArgs(r.cfg, Tail(argv)) ELSE r

(***************************************************************************)
(* get_date_from_timestamp: NaiveDateTime::from_timestamp(t, 0) rendered   *)
(* in UTC with "%Y-%m-%d %H:%M:%S".  The date is computed the way chrono   *)
(* does: seconds are split into days and second of day, days are counted   *)
(* from 1 January of year 1 (day 719163 is 1970-01-01) and located in the  *)
(* 400-year cycle of 146097 days.  The result is a sequence of characters. *)
(***************************************************************************)
Digit(d) == <<"0", "1", "2", "3", "4", "5", "6", "7", "8", "9">>[d + 1]

Pad2(n) == <<Digit((n \div 10) % 10), Digit(n % 10)>>

Pad4(n) == Pad2(n \div 100) \o Pad2(n % 100)

RECURSIVE Decimal(_)
Decimal(n) == IF n < 10 THEN <<Digit(n)>> ELSE Decimal(n \div 10) \o <<Digit(n % 10)>>

\* %Y: four digits, zero padded; a sign is written outside 0..9999.
FormatYear(y) ==
    IF y >= 0 /\ y <= 9999 THEN Pad4(y)
    ELSE IF y > 9999 THEN <<"+">> \o Decimal(y)
    ELSE <<"-">> \o (IF -y <= 9999 THEN Pad4(-y) ELSE Decimal(-y))

IsLeapYear(y) == (y % 4 = 0) /\ ((y % 100 # 0) \/ (y % 400 = 0))

\* Leap days in the years [0, y) of a 400-year cycle whose year 0 is leap.
YearDelta(y) ==
    IF y = 0 THEN 0
    ELSE ((y - 1) \div 4) - ((y - 1) \div 100) + ((y - 1) \div 400) + 1

MonthLengths(leap) ==
    <<31, IF leap THEN 29 ELSE 28, 31, 30, 31, 30, 31, 31, 30, 31, 30, 31>>

RECURSIVE MonthDay(_, _, _)
MonthDay(ordinal, m, lens) ==
    IF ordinal <= lens[m] THEN [month |-> m, day |-> ordinal]
    ELSE MonthDay(ordinal - lens[m], m + 1, lens)

\* NaiveDateTime::from_timestamp(timestamp, 0), as calendar fields.
NaiveFromTimestamp(timestamp) ==
    LET days    == timestamp \div 86400          \* div_euclid
        sod     == timestamp % 86400             \* rem_euclid
        d365    == days + 719163 + 365           \* day 0 = 31 December, 1 BCE
        q400    == d365 \div 146097
        cycle   == d365 % 146097
        ym0     == cycle \div 365
        ord0    == cycle % 365
        delta   == YearDelta(ym0)
        ym      == IF ord0 < delta THEN ym0 - 1 ELSE ym0
        ordinal == (IF ord0 < delta THEN ord0 + 365 - YearDelta(ym0 - 1)
                                    ELSE ord0 - delta) + 1
        year    == q400 * 400 + ym
        md      == MonthDay(ordinal, 1, MonthLengths(IsLeapYear(year)))
    IN  [year |-> year, month |-> md.month, day |-> md.day,
         hour |-> sod \div 3600, minute |-> (sod \div 60) % 60, second |-> sod % 60]

\* FormatDateTime with the pattern "%Y-%d-%m %H:%M:%S".
FormatDateTime_day_first(dt) ==
    FormatYear(dt.year) \o <<"-">> \o Pad2(dt.day) \o <<"-">> \o Pad2(dt.month)
      \o <<" ">> \o Pad2(dt.hour) \o <<":">> \o Pad2(dt.minute)
      \o <<":">> \o Pad2(dt.second)

\* datetime.format("%Y-%m-%d %H:%M:%S").to_string()
FormatDateTime(dt) ==
    FormatYear(dt.year) \o <<"-">> \o Pad2(dt.month) \o <<"-">> \o Pad2(dt.day)
      \o <<" ">> \o Pad2(dt.hour) \o <<":">> \o Pad2(dt.minute)
      \o <<":">> \o Pad2(dt.second)

get_date_from_timestamp(timestamp) == FormatDateTime(NaiveFromTimestamp(timestamp))

(***************************************************************************)
(* Order of Rust strings: bytewise lexicographic.                          *)
(***************************************************************************)
CharCode(c) ==
    CASE c = " " -> 32 [] c = "+" -> 43 [] c = "-" -> 45
      [] c = "0" -> 48 [] c = "1" -> 49 [] c = "2" -> 50 [] c = "3" -> 51
      [] c = "4" -> 52 [] c = "5" -> 53 [] c = "6" -> 54 [] c = "7" -> 55
      [] c = "8" -> 56 [] c = "9" -> 57 [] c = ":" -> 58

RECURSIVE StrLeq(_, _)
StrLeq(s, t) ==
    IF s = <<>> THEN TRUE
    ELSE IF t = <<>> THEN FALSE
    ELSE IF CharCode(Head(s)) # CharCode(Head(t))
         THEN CharCode(Head(s)) < CharCode(Head(t))
    ELSE StrLeq(Tail(s), Tail(t))

(***************************************************************************)
(* serde_json::Value, as far as the plugin reads it.  A number n + f/10    *)
(* (n >= 0, f a tenth) stands for a JSON number; `as i64` truncates it.    *)
(***************************************************************************)
JsonNull == [t |-> "null", s |-> "", n |-> 0, f |-> 0]
JsonString(str) == [t |-> "string", s |-> str, n |-> 0, f |-> 0]
JsonNumber(whole, tenths) == [t |-> "number", s |-> "", n |-> whole, f |-> tenths]

\* Value::as_f64
as_f64(v) == IF v.t = "number" THEN Some(v) ELSE None

\* as_i64 that rounds to the nearest second.
as_i64_round(num) == IF num.f >= 5 THEN num.n + 1 ELSE num.n

\* `x as i64` of a non-negative f64: the fraction is dropped.
as_i64(num) == num.n

\* impl PartialEq<String> for Value: equal only if the value is a string.
JsonEqString(v, str) == v.t = "string" /\ v.s = str

\* A parsed trace file u, reduced to u["userT"]["job_id"],
\* u["userDT"]["start_time"] and u["userDT"]["end_time"].  Indexing
\* Value::Null yields Value::Null.
TraceNull == [null |-> TRUE, job_id |-> JsonNull,
              start_time |-> JsonNull, end_time |-> JsonNull]
Trace(j, s, e) == [null |-> FALSE, job_id |-> j, start_time |-> s, end_time |-> e]

(***************************************************************************)
(* get_xalt_trace.  A directory is readable or not and lists its files in  *)
(* enumeration order; a file either parses to a record or fails to be      *)
(* read or parsed.                                                         *)
(***************************************************************************)
JobIds == {5, 7}

JobIdFields == {JsonString("5"), JsonString("7"), JsonNumber(7, 0), JsonNull}

TimeFields == {<<JsonNumber(1000, 0), JsonNumber(2000, 0)>>,
               <<JsonNumber(3000, 5), JsonNumber(4000, 9)>>,
               <<JsonNull, JsonNumber(2000, 0)>>,
               <<JsonNumber(1000, 0), JsonString("2000")>>}

Records == {Trace(j, se[1], se[2]) : j \in JobIdFields, se \in TimeFields}

BadFile == [parse_ok |-> FALSE, rec |-> TraceNull]
GoodFile(r) == [parse_ok |-> TRUE, rec |-> r]
Files == {BadFile} \cup {GoodFile(r) : r \in Records}

Dirs == [readable : {TRUE}, entries : SeqsUpTo(Files, MaxFiles)]
          \cup {[readable |-> FALSE, entries |-> <<>>]}

TraceOk(v) == [kind |-> "Ok", value |-> v]
TraceErr == [kind |-> "Err", value |-> TraceNull]
TracePanic == [kind |-> "Panic", value |-> TraceNull]
TraceNotRun == [kind |-> "NotRun", value |-> TraceNull]

\* ScanEntries that passes over a file it cannot read or parse.
RECURSIVE ScanEntries_skip_unparsed(_, _)
ScanEntries_skip_unparsed(entries, jobid) ==
    IF entries = <<>> THEN TraceOk(TraceNull)
    ELSE LET file == Head(entries)
         IN  IF file.parse_ok /\ JsonEqString(file.rec.job_id, ToString(jobid))
             THEN TraceOk(file.rec)
             ELSE ScanEntries_skip_unparsed(Tail(entries), jobid)

\* The `for entry in read_dir(xalt_dir)?` loop.
RECURSIVE ScanEntries(_, _)
ScanEntries(entries, jobid) ==
    IF entries = <<>> THEN TraceOk(TraceNull)            \* Ok(().into())
    ELSE LET file == Head(entries)
         IN  IF ~file.parse_ok THEN TraceErr             \* entry?, open?, from_reader?
             ELSE IF JsonEqString(file.rec.job_id, ToString(jobid))
                  THEN TraceOk(file.rec)
             ELSE ScanEntries(Tail(entries), jobid)

get_xalt_trace(jobid, user, dir) ==
    IF ~user.some THEN TracePanic                        \* getenv(..)?.unwrap()
    ELSE IF ~dir.readable THEN TraceErr                  \* read_dir(xalt_dir)?
    ELSE ScanEntries(dir.entries, jobid)


(***************************************************************************)
(* State.                                                                  *)
(*   context, optionSet, job_id  the host: execution context, whether the  *)
(*                       operator passed --generate-tro, the job's id      *)
(*   registered          the option was registered with the host           *)
(*   self                the SpankHello instance                           *)
(*   jobenv              the job's environment (spank.getenv / setenv)     *)
(*   procenv             the process environment (std::env::set_var)       *)
(*   stage               how far the host has delivered the callbacks      *)
(*   result              how each delivered callback ended                 *)
(*   resolved            the argument loop of init ran to its end          *)
(*   argv_invalid        the arguments init read name an xalt_dir that is  *)
(*                       no directory                                      *)
(*   writes              every environment write made, in order            *)
(*   calls               every run of the provenance tool, in order        *)
(*   traceResult         what get_xalt_trace returned in exit              *)
(*   trace_job, trace_user, trace_dir, trace_out                           *)
(*                       one application of get_xalt_trace                 *)
(*   ts_a, ts_b, ts_out  one application of get_date_from_timestamp to     *)
(*                       each of two timestamps                            *)
(*   cfg_argv, cfg_out   one argument vector and the results of running    *)
(*                       the argument loop of init over it, twice          *)
(***************************************************************************)
VARIABLES context, optionSet, job_id, registered, self, jobenv, procenv,
          stage, result, resolved, argv_invalid, writes, calls, traceResult,
          trace_job, trace_user, trace_dir, trace_out,
          ts_a, ts_b, ts_out,
          cfg_argv, cfg_out

hostVars == <<context, optionSet, job_id>>
pluginVars == <<registered, self, jobenv, procenv, stage, result, resolved,
                argv_invalid, writes, calls, traceResult>>
locatorVars == <<trace_job, trace_user, trace_dir, trace_out>>
formatVars == <<ts_a, ts_b, ts_out>>
configVars == <<cfg_argv, cfg_out>>
vars == <<hostVars, pluginVars, locatorVars, formatVars, configVars>>

Callbacks == {"init", "init_post_opt", "user_init", "exit"}

JobEnvNames == {"SLURM_SUBMIT_DIR", "SLURM_JOB_USER", "LD_PRELOAD", "XALT_DIR",
                "USER", "XALT_EXECUTABLE_TRACKING", "XALT_TRACING"}
ProcEnvNames == {"GPGPGHOME", "GPG_HOME"}

SubmitDirs == {None, Some(<<"/work">>)}
JobUsers == {None, Some(<<"alice">>)}
Preloads == {None, Some(<<>>), Some(<<"/lib/a.so">>),
             Some(<<"/lib/a.so", ":", "/lib/b.so">>)}

\* What Command::output() can do: the program cannot be started (Err, on
\* which expect panics), or it runs and exits with status zero or not.
\* An empty program name cannot be started.
ToolOutcomes(program) ==
    IF program = <<>> THEN {"spawn_failed"}
    ELSE {"spawn_failed", "exit_zero", "exit_nonzero"}

AllOutcomes == {"spawn_failed", "exit_zero", "exit_nonzero"}

\* get_user_by_uid(job_uid): the job's owner may have no passwd entry.
UidLookups == {None, Some(<<"alice">>)}

LocatorIdle ==
    /\ trace_job = 0 /\ trace_user = None
    /\ trace_dir = [readable |-> FALSE, entries |-> <<>>]
    /\ trace_out = TraceNotRun

FormatIdle == ts_a = 0 /\ ts_b = 0 /\ ts_out = <<>>

ConfigIdle == cfg_argv = <<>> /\ cfg_out = <<>>

PluginCreated ==
    /\ registered = FALSE
    /\ self = SpankHelloDefault
    /\ procenv = [n \in ProcEnvNames |-> None]
    /\ stage = "created"
    /\ result = [c \in Callbacks |-> "none"]
    /\ resolved = FALSE
    /\ argv_invalid = FALSE
    /\ writes = <<>>
    /\ calls = <<>>
    /\ traceResult = TraceNotRun

Init ==
    /\ context \in Contexts
    /\ optionSet \in BOOLEAN
    /\ job_id \in JobIds
    /\ \E sd \in SubmitDirs, ju \in JobUsers, pl \in Preloads :
         jobenv = [n \in JobEnvNames |->
                     CASE n = "SLURM_SUBMIT_DIR" -> sd
                       [] n = "SLURM_JOB_USER" -> ju
                       [] n = "LD_PRELOAD" -> pl
                       [] OTHER -> None]
    /\ PluginCreated
    /\ LocatorIdle
    /\ FormatIdle
    /\ ConfigIdle

(***************************************************************************)
(* Environment writes and tool runs.                                       *)
(***************************************************************************)
Write(cb, api, name, value) == [cb |-> cb, api |-> api, name |-> name, value |-> value]

\* DocPath without the job id.
DocPath_fixed(workdir, jobid) == workdir \o <<"/tro", ".jsonld">>

\* format!("{}/tro-{}.jsonld", workdir, spank.job_id()?)
DocPath(workdir, jobid) == workdir \o <<"/tro-", ToString(jobid), ".jsonld">>

\* One Command::new(self.tro_utils).args(..).output().  phase names the
\* argument list: Open (initial_args), Close (final_args), Correlate
\* (perf_args), Seal (sing_args).
ToolCall(cb, phase, cfg, doc, start, end, outcome) ==
    [cb          |-> cb,
     phase       |-> phase,
     program     |-> cfg.tro_utils,
     declaration |-> doc,
     subcommand  |-> CASE phase \in {"Open", "Close"} -> <<"arrangement", "add">>
                       [] phase = "Correlate" -> <<"performance", "add">>
                       [] phase = "Seal" -> <<"sign">>,
     message     |-> CASE phase = "Open" -> "'Initial arrangement'"
                       [] phase = "Close" -> "'Final arrangement'"
                       [] phase = "Correlate" -> "'Run magic'"
                       [] phase = "Seal" -> "",
     start       |-> start,
     end         |-> end,
     refs        |-> IF phase = "Correlate"
                     THEN <<"arrangement/0", "arrangement/1">> ELSE <<>>,
     outcome     |-> outcome]


(***************************************************************************)
(* init                                                                    *)
(***************************************************************************)
\* spank.register_option: in the Local, Remote and Allocator contexts.
RegistersOption(ctx) == ctx \in {"Local", "Remote", "Allocator"}

\* The unsafe block of init: both aliases of the signing key home.
GpgHomeWrites(cfg) ==
    <<Write("init", "set_var", "GPGPGHOME", cfg.gpg_home),
      Write("init", "set_var", "GPG_HOME", cfg.gpg_home)>>

\* The rest of init once the argument loop has ended: the document is
\* created with the initial arrangement.
InitOpen(cfg, workdir, jobid, outcome) ==
    IF ~workdir.some
    THEN [calls |-> <<>>, result |-> "panic"]            \* getenv(..)?.unwrap()
    ELSE [calls  |-> <<ToolCall("init", "Open", cfg, DocPath(workdir.val, jobid),
                                <<>>, <<>>, outcome)>>,
          result |-> IF outcome = "spawn_failed" THEN "panic" ELSE "ok"]

init ==
    /\ stage = "created"
    /\ stage' = "configured"
    /\ registered' = RegistersOption(context)
    /\ IF context # "Remote"
       THEN /\ result' = [result EXCEPT !["init"] = "ok"]
            /\ UNCHANGED <<self, procenv, resolved, argv_invalid, writes, calls>>
       ELSE \E argv \in ArgVecs :
              LET p == ParseArgs(self, argv)
              IN  /\ self' = p.cfg
                  /\ resolved' = p.ok
                  /\ argv_invalid' = NamesInvalidDir(argv)
                  /\ IF ~p.ok
                     THEN /\ result' = [result EXCEPT !["init"] = "err"]
                          /\ UNCHANGED <<procenv, writes, calls>>
                     ELSE /\ procenv' = [n \in ProcEnvNames |-> Some(p.cfg.gpg_home)]
                          /\ writes' = writes \o GpgHomeWrites(p.cfg)
                          /\ \E o \in ToolOutcomes(p.cfg.tro_utils) :
                               LET r == InitOpen(p.cfg, jobenv["SLURM_SUBMIT_DIR"],
                                                 job_id, o)
                               IN  /\ calls' = calls \o r.calls
                                   /\ result' = [result EXCEPT !["init"] = r.result]
    /\ UNCHANGED <<hostVars, jobenv, traceResult, locatorVars, formatVars, configVars>>

(***************************************************************************)
(* init_post_opt                                                           *)
(***************************************************************************)
\* spank.is_option_set("generate-tro")
is_option_set == registered /\ optionSet

\* init_post_opt that starts from a fresh plugin.
init_post_opt_fresh ==
    /\ stage = "configured"
    /\ stage' = "option_resolved"
    /\ self' = [SpankHelloDefault EXCEPT !.generate_tro = is_option_set]
    /\ result' = [result EXCEPT !["init_post_opt"] = "ok"]
    /\ UNCHANGED <<hostVars, registered, jobenv, procenv, resolved, argv_invalid,
                   writes, calls, traceResult, locatorVars, formatVars, configVars>>

init_post_opt ==
    /\ stage = "configured"
    /\ stage' = "option_resolved"
    /\ self' = [self EXCEPT !.generate_tro = is_option_set]
    /\ result' = [result EXCEPT !["init_post_opt"] = "ok"]
    /\ UNCHANGED <<hostVars, registered, jobenv, procenv, resolved, argv_invalid, writes, calls,
                   traceResult, locatorVars, formatVars, configVars>>

(***************************************************************************)
(* user_init                                                               *)
(***************************************************************************)
\* The guard of user_init and of exit without the test of the context.
Capturing_any_context(cfg, ctx) == cfg.generate_tro

\* The guard of user_init and of exit:
\* self.generate_tro && spank.context()? == Context::Remote
Capturing(cfg, ctx) == cfg.generate_tro /\ ctx = "Remote"

\* Path::join with a relative component.
PathJoin(path, component) ==
    IF path = <<>> THEN <<component>>
    ELSE IF path[Len(path)] = "/" THEN Append(path, component)
    ELSE path \o <<"/", component>>

Preloader(cfg) == PathJoin(PathJoin(cfg.xalt_dir, "lib64"), "libxalt_init.so")

\* ComposePreload that replaces the list it finds.
ComposePreload_clobber(preloader, old_preload) == preloader

\* The new value of LD_PRELOAD, given the value read before.
ComposePreload(preloader, old_preload) ==
    IF ~old_preload.some THEN preloader
    ELSE preloader \o <<":">> \o old_preload.val

\* The body of user_init under its guard: the writes made, in order, and
\* how the callback ends.  user is get_user_by_uid(job_uid).
InjectEnv(cfg, env, user) ==
    LET first == <<Write("user_init", "setenv", "XALT_DIR", cfg.xalt_dir),
                   Write("user_init", "setenv", "LD_PRELOAD",
                         ComposePreload(Preloader(cfg), env["LD_PRELOAD"]))>>
    IN  IF ~user.some
        THEN [writes |-> first, result |-> "panic"]      \* get_user_by_uid(..).unwrap()
        ELSE [writes |-> first \o
                         <<Write("user_init", "setenv", "USER", user.val),
                           Write("user_init", "setenv", "XALT_EXECUTABLE_TRACKING",
                                 <<"yes">>),
                           Write("user_init", "setenv", "XALT_TRACING", <<"no">>)>>,
              result |-> "ok"]

\* spank.setenv(name, value, overwrite = true), for each write in order.
RECURSIVE ApplyWrites(_, _)
ApplyWrites(env, ws) ==
    IF ws = <<>> THEN env
    ELSE ApplyWrites([env EXCEPT ![Head(ws).name] = Some(Head(ws).value)], Tail(ws))

user_init ==
    /\ stage = "option_resolved"
    /\ stage' = "active"
    /\ IF Capturing(self, context)
       THEN \E user \in UidLookups :
              LET r == InjectEnv(self, jobenv, user)
              IN  /\ writes' = writes \o r.writes
                  /\ jobenv' = ApplyWrites(jobenv, r.writes)
                  /\ result' = [result EXCEPT !["user_init"] = r.result]
       ELSE /\ result' = [result EXCEPT !["user_init"] = "ok"]
            /\ UNCHANGED <<jobenv, writes>>
    /\ UNCHANGED <<hostVars, registered, self, procenv, resolved, argv_invalid, calls,
                   traceResult, locatorVars, formatVars, configVars>>

(***************************************************************************)
(* exit                                                                    *)
(***************************************************************************)
\* SealStep with a retry: a sign that exits non-zero is run once more.
SealStep_retry(cfg, doc, o3) ==
    LET seal == ToolCall("exit", "Seal", cfg, doc, <<>>, <<>>, o3)
    IN  [calls  |-> IF o3 = "exit_nonzero" THEN <<seal, seal>> ELSE <<seal>>,
         result |-> IF o3 = "spawn_failed" THEN "panic" ELSE "ok"]

\* sing_args: the document is signed.
SealStep(cfg, doc, o3) ==
    [calls  |-> <<ToolCall("exit", "Seal", cfg, doc, <<>>, <<>>, o3)>>,
     result |-> IF o3 = "spawn_failed" THEN "panic" ELSE "ok"]

\* CorrelateStep with unwrap_or(0.0) in place of unwrap(): a trace without
\* numeric times is recorded as running from the epoch.
CorrelateStep_unwrap_or(cfg, doc, trace, o2, o3) ==
    LET zero == JsonNumber(0, 0)
        st   == IF as_f64(trace.start_time).some THEN trace.start_time ELSE zero
        et   == IF as_f64(trace.end_time).some THEN trace.end_time ELSE zero
        perf == ToolCall("exit", "Correlate", cfg, doc,
                         get_date_from_timestamp(as_i64(st)),
                         get_date_from_timestamp(as_i64(et)), o2)
    IN  IF o2 = "spawn_failed"
        THEN [calls |-> <<perf>>, result |-> "panic"]
        ELSE [calls |-> <<perf>> \o SealStep(cfg, doc, o3).calls,
              result |-> SealStep(cfg, doc, o3).result]

\* CorrelateStep that returns once the performance is added and leaves the
\* document unsigned.
CorrelateStep_no_seal(cfg, doc, trace, o2, o3) ==
    LET start_time == as_f64(trace.start_time)
        end_time   == as_f64(trace.end_time)
    IN  IF ~start_time.some \/ ~end_time.some
        THEN [calls |-> <<>>, result |-> "panic"]
        ELSE LET perf == ToolCall("exit", "Correlate", cfg, doc,
                                  get_date_from_timestamp(as_i64(start_time.val)),
                                  get_date_from_timestamp(as_i64(end_time.val)), o2)
             IN  [calls |-> <<perf>>,
                  result |-> IF o2 = "spawn_failed" THEN "panic" ELSE "ok"]

\* The Ok(trace) arm: both times are unwrapped, the performance is added,
\* then the document is signed.
CorrelateStep(cfg, doc, trace, o2, o3) ==
    LET start_time == as_f64(trace.start_time)
        end_time   == as_f64(trace.end_time)
    IN  IF ~start_time.some \/ ~end_time.some
        THEN [calls |-> <<>>, result |-> "panic"]        \* as_f64().unwrap()
        ELSE LET perf == ToolCall("exit", "Correlate", cfg, doc,
                                  get_date_from_timestamp(as_i64(start_time.val)),
                                  get_date_from_timestamp(as_i64(end_time.val)), o2)
             IN  IF o2 = "spawn_failed"
                 THEN [calls |-> <<perf>>, result |-> "panic"]
                 ELSE LET s == SealStep(cfg, doc, o3)
                      IN  [calls |-> <<perf>> \o s.calls, result |-> s.result]

\* match xalt_trace { Ok(trace) => .., Err(e) => return Err(e) }
AfterTrace(cfg, doc, tr, o2, o3) ==
    CASE tr.kind = "Panic" -> [calls |-> <<>>, result |-> "panic"]
      [] tr.kind = "Err"   -> [calls |-> <<>>, result |-> "err"]
      [] tr.kind = "Ok"    -> CorrelateStep(cfg, doc, tr.value, o2, o3)

\* Every value get_xalt_trace can return for a job and a user, over the
\* states the trace directory can be in.
TraceLookups ==
    [j \in JobIds |-> [u \in JobUsers |-> {get_xalt_trace(j, u, d) : d \in Dirs}]]

\* The body of exit under its guard: the tool runs made, in order, how the
\* callback ends, and what the trace lookup returned.  tr is the value of
\* get_xalt_trace(spank), should the callback get that far.
ExitBody(cfg, env, jobid, tr, o1, o2, o3) ==
    LET workdir == env["SLURM_SUBMIT_DIR"]
    IN  IF ~workdir.some
        THEN [calls |-> <<>>, result |-> "panic", trace |-> TraceNotRun]
        ELSE LET doc   == DocPath(workdir.val, jobid)
                 close == ToolCall("exit", "Close", cfg, doc, <<>>, <<>>, o1)
             IN  IF o1 = "spawn_failed"
                 THEN [calls |-> <<close>>, result |-> "panic", trace |-> TraceNotRun]
                 ELSE LET a == AfterTrace(cfg, doc, tr, o2, o3)
                      IN  [calls |-> <<close>> \o a.calls, result |-> a.result,
                           trace |-> tr]

exit ==
    /\ stage = "active"
    /\ stage' = "finalized"
    /\ IF Capturing(self, context)
       THEN \E tr \in TraceLookups[job_id][jobenv["SLURM_JOB_USER"]] :
            \E o1, o2, o3 \in ToolOutcomes(self.tro_utils) :
              LET r == ExitBody(self, jobenv, job_id, tr, o1, o2, o3)
              IN  /\ calls' = calls \o r.calls
                  /\ result' = [result EXCEPT !["exit"] = r.result]
                  /\ traceResult' = r.trace
       ELSE /\ result' = [result EXCEPT !["exit"] = "ok"]
            /\ UNCHANGED <<calls, traceResult>>
    /\ UNCHANGED <<hostVars, registered, self, jobenv, procenv, resolved,
                   argv_invalid, writes,
                   locatorVars, formatVars, configVars>>

(***************************************************************************)
(* The plugin instance under the host's callback sequence.                 *)
(***************************************************************************)
Next == init \/ init_post_opt \/ user_init \/ exit

Spec == Init /\ [][Next]_vars


(***************************************************************************)
(* Properties of the callback sequence (specification Spec).               *)
(***************************************************************************)
CallsOf(phase) == {i \in 1..Len(calls) : calls[i].phase = phase}

NotFound == TraceOk(TraceNull)

\* C1: Seal is invoked only after both Close and Correlate have been
\* invoked in the exit callback for the same document, and Correlate is
\* never invoked unless the trace lookup returned a matched record.
C1_SealLastCorrelateNeedsTrace ==
    /\ \A k \in CallsOf("Seal") :
         /\ \E i \in CallsOf("Close") :
              /\ i < k /\ calls[i].cb = "exit"
              /\ calls[i].declaration = calls[k].declaration
         /\ \E j \in CallsOf("Correlate") :
              /\ j < k /\ calls[j].cb = "exit"
              /\ calls[j].declaration = calls[k].declaration
    /\ (traceResult.kind # "Ok" \/ traceResult.value.null) => CallsOf("Correlate") = {}

\* C1 witness: the document was signed in exit.
C1_Witness == stage = "finalized" /\ CallsOf("Seal") # {}

\* C2: over the four callbacks, each delivered at most once and in order,
\* the document is opened at most once and signed at most once, no phase is
\* invoked twice, and no tool run follows Seal.
C2_OnceEachSealLast ==
    /\ \A ph \in {"Open", "Close", "Correlate", "Seal"} : Cardinality(CallsOf(ph)) <= 1
    /\ \A k \in CallsOf("Seal") : k = Len(calls)

\* C2 witness: a run in which the document was both opened and signed.
C2_Witness ==
    /\ stage = "finalized"
    /\ CallsOf("Open") # {} /\ CallsOf("Seal") # {}
    /\ calls[Len(calls)].outcome = "exit_nonzero"

\* C3: if the opt-in switch is not set, no environment variable is written
\* and the provenance tool is never run, in any callback and any context.
C3_DisabledNoEffects == ~optionSet => (writes = <<>> /\ calls = <<>>)

\* C4: if any environment write or tool run has occurred, the argument loop
\* of init (with xalt_dir validated) has run to successful completion.
C4_EffectsOnlyWhenResolved == (writes # <<>> \/ calls # <<>>) => resolved

\* C5: a Close or Correlate run that exits non-zero is the last tool run of
\* the exit callback: nothing is invoked after it.
C5_FailedPhaseAborts ==
    \A i \in 1..Len(calls) :
        (/\ calls[i].cb = "exit"
         /\ calls[i].phase \in {"Close", "Correlate"}
         /\ calls[i].outcome = "exit_nonzero") => i = Len(calls)

\* C6: no callback ends in a panic.
C6_NoPanic == \A c \in Callbacks : result[c] # "panic"

\* C7: if the trace lookup in exit returns NotFound or a read error, exit
\* returns Err to the host, and Close is the only tool run of that callback.
C7_NoTraceIsHardFailure ==
    (traceResult = NotFound \/ traceResult.kind = "Err") =>
        /\ result["exit"] = "err"
        /\ \A i \in 1..Len(calls) : calls[i].cb = "exit" => calls[i].phase = "Close"

\* The shim path: xalt_dir, lib64 and libxalt_init.so as one path.
ShimPath(xalt_dir) ==
    (IF xalt_dir = <<>> THEN <<>>
     ELSE IF xalt_dir[Len(xalt_dir)] = "/" THEN xalt_dir
     ELSE Append(xalt_dir, "/")) \o <<"lib64", "/", "libxalt_init.so">>

\* C8: when user_init injects the environment, an unset LD_PRELOAD becomes
\* the shim path alone, and a value V becomes shim path, ":" and V, so V is
\* a suffix of the new value.
C8_PreloadComposed ==
    [][(/\ stage = "option_resolved" /\ stage' = "active"
        /\ self.generate_tro /\ context = "Remote") =>
       LET old == jobenv["LD_PRELOAD"]
           new == jobenv'["LD_PRELOAD"]
       IN  /\ new.some
           /\ IF ~old.some
              THEN new.val = ShimPath(self.xalt_dir)
              ELSE /\ new.val = ShimPath(self.xalt_dir) \o <<":">> \o old.val
                   /\ IsSuffix(old.val, new.val)]_vars

\* C8 witness: the injector ran over a preload list of two libraries.
C8_Witness ==
    /\ stage = "active"
    /\ \E i \in 1..Len(writes) :
         /\ writes[i].name = "LD_PRELOAD"
         /\ writes[i].value = <<"/opt/xalt", "/", "lib64", "/", "libxalt_init.so",
                                ":", "/lib/a.so", ":", "/lib/b.so">>


(***************************************************************************)
(* get_xalt_trace on its own: one lookup for every job id, user and state  *)
(* of the trace directory.                                                 *)
(***************************************************************************)
HostIdle ==
    /\ context = "Remote" /\ optionSet = FALSE /\ job_id = 0
    /\ jobenv = [n \in JobEnvNames |-> None]

InitLocator ==
    /\ HostIdle /\ PluginCreated /\ FormatIdle /\ ConfigIdle
    /\ trace_job \in JobIds
    /\ trace_user \in JobUsers
    /\ trace_dir \in Dirs
    /\ trace_out = TraceNotRun

Locate ==
    /\ trace_out = TraceNotRun
    /\ trace_out' = get_xalt_trace(trace_job, trace_user, trace_dir)
    /\ UNCHANGED <<hostVars, pluginVars, trace_job, trace_user, trace_dir, formatVars,
                   configVars>>

SpecLocator == InitLocator /\ [][Locate]_vars

Min(S) == CHOOSE x \in S : \A y \in S : x <= y

\* The files of the directory whose job-ID field equals the job id as a
\* string, and those that cannot be read or parsed, by position.
Matching == {i \in 1..Len(trace_dir.entries) :
               /\ trace_dir.entries[i].parse_ok
               /\ trace_dir.entries[i].rec.job_id.t = "string"
               /\ trace_dir.entries[i].rec.job_id.s = ToString(trace_job)}
Unparsed == {i \in 1..Len(trace_dir.entries) : ~trace_dir.entries[i].parse_ok}

Located == trace_out # TraceNotRun /\ trace_user.some

TsDays == {-24855, -366, -1, 0, 1, 30, 31, 58, 59, 364, 365, 789, 790,
           10956, 10957, 11015, 11016, 11017, 24854}
TsSecs == {0, 1, 59, 60, 3599, 3600, 43200, 86399}
Timestamps == {d * 86400 + sec : d \in TsDays, sec \in TsSecs}

InitFormat ==
    /\ HostIdle /\ PluginCreated /\ LocatorIdle /\ ConfigIdle
    /\ ts_a \in Timestamps
    /\ ts_b \in Timestamps
    /\ ts_out = <<>>

Format ==
    /\ ts_out = <<>>
    /\ ts_out' = <<get_date_from_timestamp(ts_a), get_date_from_timestamp(ts_b)>>
    /\ UNCHANGED <<hostVars, pluginVars, locatorVars, ts_a, ts_b, configVars>>

SpecFormat == InitFormat /\ [][Format]_vars

IsDigit(c) == c \in {"0", "1", "2", "3", "4", "5", "6", "7", "8", "9"}

\* YYYY-MM-DD HH:MM:SS
WellFormed(str) ==
    /\ Len(str) = 19
    /\ \A i \in {1, 2, 3, 4, 6, 7, 9, 10, 12, 13, 15, 16, 18, 19} : IsDigit(str[i])
    /\ str[5] = "-" /\ str[8] = "-" /\ str[11] = " "
    /\ str[14] = ":" /\ str[17] = ":"

Num(str, from, to) ==
    LET RECURSIVE Go(_, _)
        Go(i, acc) == IF i > to THEN acc
                      ELSE Go(i + 1, acc * 10 + (CharCode(str[i]) - 48))
    IN  Go(from, 0)

\* The epoch second a well-formed date and time denotes in UTC (days from
\* the civil date, counted in 400-year eras starting in March).
EpochOf(str) ==
    LET y   == Num(str, 1, 4)
        m   == Num(str, 6, 7)
        d   == Num(str, 9, 10)
        yy  == IF m <= 2 THEN y - 1 ELSE y
        era == yy \div 400
        yoe == yy - era * 400
        mp  == IF m > 2 THEN m - 3 ELSE m + 9
        doy == (153 * mp + 2) \div 5 + d - 1
        doe == yoe * 365 + yoe \div 4 - yoe \div 100 + doy
    IN  (era * 146097 + doe - 719468) * 86400
          + Num(str, 12, 13) * 3600 + Num(str, 15, 16) * 60 + Num(str, 18, 19)

EpochString == <<"1", "9", "7", "0", "-", "0", "1", "-", "0", "1", " ",
                 "0", "0", ":", "0", "0", ":", "0", "0">>

\* C10: format(0) is "1970-01-01 00:00:00"; the output has the form
\* YYYY-MM-DD HH:MM:SS and denotes the input second in UTC; t1 <= t2 implies
\* format(t1) <= format(t2) in string order; equal inputs give equal outputs.
C10_FormatterMonotone ==
    ts_out # <<>> =>
      /\ (ts_a = 0 => ts_out[1] = EpochString)
      /\ WellFormed(ts_out[1])
      /\ EpochOf(ts_out[1]) = ts_a
      /\ (ts_a <= ts_b => StrLeq(ts_out[1], ts_out[2]))
      /\ (ts_a = ts_b => ts_out[1] = ts_out[2])

\* C10 witness: 29 February 2000 formatted next to the epoch.
C10_Witness ==
    /\ ts_out # <<>>
    /\ ts_a = 0 /\ ts_b = 11016 * 86400 + 86399
    /\ ts_out[2] = <<"2", "0", "0", "0", "-", "0", "2", "-", "2", "9", " ",
                     "2", "3", ":", "5", "9", ":", "5", "9">>


(***************************************************************************)
(* Properties of the callback sequence, continued (specification Spec).    *)
(***************************************************************************)
\* The trace lookup of exit returned a matched record with numeric times.
TraceFound ==
    /\ traceResult.kind = "Ok" /\ ~traceResult.value.null
    /\ traceResult.value.start_time.t = "number"
    /\ traceResult.value.end_time.t = "number"

\* C11: a Correlate invocation carries as start and end the start_time and
\* end_time of the matched record, cut to whole seconds and formatted
\* (start_time 1000 gives "1970-01-01 00:16:40", end_time 2000 gives
\* "1970-01-01 00:33:20"), and references arrangement/0 and arrangement/1;
\* it is made whenever a record with numeric times was found.
C11_CorrelateCarriesTraceTimes ==
    /\ \A k \in CallsOf("Correlate") :
         /\ TraceFound
         /\ WellFormed(calls[k].start) /\ WellFormed(calls[k].end)
         /\ EpochOf(calls[k].start) = traceResult.value.start_time.n
         /\ EpochOf(calls[k].end) = traceResult.value.end_time.n
         /\ (traceResult.value.start_time = JsonNumber(1000, 0) =>
               calls[k].start = <<"1", "9", "7", "0", "-", "0", "1", "-", "0", "1", " ",
                                  "0", "0", ":", "1", "6", ":", "4", "0">>)
         /\ (traceResult.value.end_time = JsonNumber(2000, 0) =>
               calls[k].end = <<"1", "9", "7", "0", "-", "0", "1", "-", "0", "1", " ",
                                "0", "0", ":", "3", "3", ":", "2", "0">>)
         /\ calls[k].refs = <<"arrangement/0", "arrangement/1">>
    /\ TraceFound => CallsOf("Correlate") # {}

\* C11 witness: a trace from second 1000 to second 2000 was correlated.
C11_Witness ==
    /\ TraceFound
    /\ traceResult.value.start_time = JsonNumber(1000, 0)
    /\ traceResult.value.end_time = JsonNumber(2000, 0)
    /\ \E k \in CallsOf("Correlate") : calls[k].outcome = "exit_zero"


(***************************************************************************)
(* The argument loop of init on its own: an argument vector is parsed      *)
(* into a fresh plugin, and parsed once more into the result.              *)
(***************************************************************************)
InitConfig ==
    /\ HostIdle /\ PluginCreated /\ LocatorIdle /\ FormatIdle
    /\ cfg_argv \in ArgVecs
    /\ cfg_out = <<>>

Resolve ==
    /\ cfg_out = <<>>
    /\ LET first == ParseArgs(SpankHelloDefault, cfg_argv)
       IN  cfg_out' = <<first, ParseArgs(first.cfg, cfg_argv)>>
    /\ UNCHANGED <<hostVars, pluginVars, locatorVars, formatVars, cfg_argv>>

SpecConfig == InitConfig /\ [][Resolve]_vars

ConfigFields == {"xalt_dir", "gpg_home", "gpg_fingerprint", "gpg_passphrase",
                 "trs_caps", "tro_utils"}

Max(S) == CHOOSE x \in S : \A y \in S : x >= y

\* The value of the last argument of argv with the given key, if any.
LastValue(argv, key, default) ==
    LET at == {i \in 1..Len(argv) : argv[i].key = key}
    IN  IF at = {} THEN default ELSE argv[Max(at)].value

\* C12: for every argument vector whose xalt_dir values are directories,
\* parsing succeeds, each field holds the value of the last argument with
\* its own key (its default if there is none), so an argument sets its own
\* field only and an unknown key sets none, and parsing the vector again
\* gives the same configuration.
C12_KeysSetOwnField ==
    (cfg_out # <<>> /\ ~NamesInvalidDir(cfg_argv)) =>
      /\ cfg_out[1].ok
      /\ \A f \in ConfigFields :
           cfg_out[1].cfg[f] = LastValue(cfg_argv, f, SpankHelloDefault[f])
      /\ cfg_out[1].cfg.generate_tro = FALSE
      /\ cfg_out[2] = cfg_out[1]

\* C12 witness: an unknown key followed by gpg_passphrase was parsed.
C12_Witness ==
    /\ cfg_out # <<>>
    /\ Len(cfg_argv) = 2
    /\ cfg_argv[1].key = "other" /\ cfg_argv[2].key = "gpg_passphrase"
    /\ cfg_out[1].ok
    /\ cfg_out[1].cfg = [SpankHelloDefault EXCEPT !.gpg_passphrase = <<"pw">>]

(***************************************************************************)
(* Properties of the callback sequence, continued (specification Spec).    *)
(***************************************************************************)
\* C13: in the Remote context init returns Err exactly when an xalt_dir
\* argument names no existing directory, and otherwise the argument loop
\* runs to its end; an init that returned Err made no environment write and
\* ran no tool.
C13_InvalidDirFailsCleanly ==
    (context = "Remote" /\ stage # "created") =>
      /\ argv_invalid <=> result["init"] = "err"
      /\ ~argv_invalid <=> resolved
      /\ result["init"] = "err" =>
           /\ \A i \in 1..Len(writes) : writes[i].cb # "init"
           /\ \A i \in 1..Len(calls) : calls[i].cb # "init"
           /\ \A n \in ProcEnvNames : ~procenv[n].some

\* C13 witness: init failed on xalt_dir after it had set tro_utils.
C13_Witness ==
    /\ stage = "configured"
    /\ argv_invalid
    /\ result["init"] = "err"
    /\ self.tro_utils # <<>>
    /\ writes = <<>> /\ calls = <<>>


\* C14: every tool run names the document {SLURM_SUBMIT_DIR}/tro-{job id}.jsonld,
\* whatever the plugin arguments and whichever callback makes it.
C14_OneDocumentPath ==
    \A i \in 1..Len(calls) :
        /\ jobenv["SLURM_SUBMIT_DIR"].some
        /\ calls[i].declaration =
             jobenv["SLURM_SUBMIT_DIR"].val \o <<"/tro-">> \o Decimal(job_id)
               \o <<".jsonld">>

\* C14 witness: Open, Close, Correlate and Seal were all run.
C14_Witness ==
    /\ Len(calls) = 4
    /\ \A ph \in {"Open", "Close", "Correlate", "Seal"} : CallsOf(ph) # {}

\* C15: Open is invoked by user_init, after init_post_opt has read the
\* switch and after the environment has been injected, and only when
\* capture is enabled.
C15_OpenInUserInit ==
    \A k \in CallsOf("Open") :
        /\ calls[k].cb = "user_init"
        /\ result["init_post_opt"] # "none"
        /\ self.generate_tro
        /\ \E i \in 1..Len(writes) : writes[i].cb = "user_init"

\* The arrangement entries of the document before the k-th tool run: one
\* for each `arrangement add` that ran and exited with status zero.
ArrangementsBefore(k) ==
    LET Added(c) == c.phase \in {"Open", "Close"} /\ c.outcome = "exit_zero"
        added    == SelectSeq(SubSeq(calls, 1, k - 1), Added)
    IN  [i \in 1..Len(added) |-> added[i].phase]

PhasesBefore(k) == [i \in 1..(k - 1) |-> calls[i].phase]

\* C16: when Correlate is invoked the document holds exactly two
\* arrangement entries, entry 0 made by Open and entry 1 made by Close, and
\* when Seal is invoked exactly Open, Close and Correlate, in that order,
\* have been invoked before it.
C16_IndicesValid ==
    /\ \A k \in CallsOf("Correlate") : ArrangementsBefore(k) = <<"Open", "Close">>
    /\ \A k \in CallsOf("Seal") : PhasesBefore(k) = <<"Open", "Close", "Correlate">>

\* C17: outside the Remote context no callback parses the plugin
\* arguments, writes an environment variable or runs the tool, whatever the
\* switch says; the option is registered exactly in the Local, Remote and
\* Allocator contexts.
C17_OnlyRemoteActs ==
    /\ context # "Remote" =>
         /\ writes = <<>> /\ calls = <<>>
         /\ \A n \in ProcEnvNames : ~procenv[n].some
         /\ ~resolved
         /\ \A f \in ConfigFields : self[f] = SpankHelloDefault[f]
         /\ traceResult = TraceNotRun
    /\ stage # "created" =>
         (registered <=> context \in {"Local", "Remote", "Allocator"})

\* C17 witness: all four callbacks ran in the Local context with the
\* switch set.
C17_Witness ==
    /\ stage = "finalized"
    /\ context = "Local"
    /\ self.generate_tro
    /\ writes = <<>> /\ calls = <<>>

\* C18: the six configuration fields are changed by no callback after
\* init, and the capture flag by no callback but init_post_opt.
C18_StateFrozen ==
    [][/\ stage # "created" => \A f \in ConfigFields : self'[f] = self[f]
       /\ stage # "configured" => self'.generate_tro = self.generate_tro]_vars

\* C18 witness: a configured instance with capture enabled ran to the end.
C18_Witness ==
    /\ stage = "finalized"
    /\ self.generate_tro
    /\ self.tro_utils # <<>> /\ self.gpg_home # <<>>
    /\ result["exit"] = "ok"

\* The names written by one callback, in order.
WrittenBy(cb) ==
    LET By(w) == w.cb = cb
        ws    == SelectSeq(writes, By)
    IN  [i \in 1..Len(ws) |-> ws[i].name]

\* C19: when the environment is injected, that single run writes, in this
\* order, the two signing-home aliases, the tracing directory, the preload
\* list, the user name and the two tracing flags.
C19_InjectorOrder ==
    (Capturing(self, context) /\ result["user_init"] = "ok") =>
        WrittenBy("user_init") =
            <<"GPGPGHOME", "GPG_HOME", "XALT_DIR", "LD_PRELOAD", "USER",
              "XALT_EXECUTABLE_TRACKING", "XALT_TRACING">>


(***************************************************************************)
(* The plugin instance under a host that delivers every callback: each     *)
(* callback is a finite piece of straight-line code, Command::output()     *)
(* blocks until the tool has ended, and the host calls init,               *)
(* init_post_opt, user_init and exit one after the other.                  *)
(***************************************************************************)
SpecLive == Init /\ [][Next]_vars /\ WF_vars(Next)

\* The tool runs made by exit, in order.
ExitPhases ==
    LET ByExit(c) == c.cb = "exit"
        cs        == SelectSeq(calls, ByExit)
    IN  [i \in 1..Len(cs) |-> cs[i].phase]

\* Capture enabled in the Remote context, a configuration that parsed, every
\* tool run spawned and returned, and a record of the job with numeric
\* start and end times.
HappyPath ==
    /\ context = "Remote" /\ self.generate_tro
    /\ resolved
    /\ \A i \in 1..Len(calls) : calls[i].outcome # "spawn_failed"
    /\ TraceFound

\* C20: an instance whose callbacks are all delivered reaches Finalized,
\* and on the happy path it does so with Close, Correlate and Seal each
\* run exactly once, in that order, and exit returning Ok.
C20_HappyPathFinalizes ==
    (stage = "created") ~>
        (/\ stage = "finalized"
         /\ HappyPath => /\ ExitPhases = <<"Close", "Correlate", "Seal">>
                         /\ result["exit"] = "ok")

\* C20 witness: a happy path that has reached Finalized.
C20_Witness ==
    /\ stage = "finalized"
    /\ HappyPath
    /\ ExitPhases = <<"Close", "Correlate", "Seal">>
    /\ \A cb \in {"init", "init_post_opt", "user_init", "exit"} : result[cb] = "ok"


=============================================================================
